---- MODULE Spec2Model ----
(***************************************************************************)
(* Gesture state machine of Slip (src/slip.ts): one Slip instance attached *)
(* to one container.  Every handler is one action; the calls a handler     *)
(* makes (setState, leaveState, state constructors, dispatch, animateTo-   *)
(* Zero, animateSwipe) are operators over the machine record `m` and are   *)
(* composed inside the action.  A listener's preventDefault() is an input  *)
(* of the action (a veto flag per dispatched notification).                *)
(*                                                                         *)
(* `this` is the Slip instance in every method, and holdTimer is one       *)
(* function-scoped variable of undecidedStateInit, as in the ES5 build     *)
(* output kept in src/slip.js.                                             *)
(***************************************************************************)
EXTENDS Integers, Sequences, FiniteSets, TLC

VARIABLES
    options,                \* this.options after the constructor's defaults
    dom,                    \* container.childNodes (read-only for Slip)
    state,                  \* this.state: the state object and its closure
    target,                 \* this.target
    usingTouch,             \* this.usingTouch
    mouseHandlersAttached,  \* this.mouseHandlersAttached
    canPreventScrolling,    \* this.canPreventScrolling
    startPosition,          \* this.startPosition
    latestPosition,         \* this.latestPosition
    previousPosition,       \* this.previousPosition
    scrollable,             \* the scroll container's content exceeds its extent
    scrollTop,              \* target.scrollContainer.scrollTop (environment)
    swipingClass,           \* container.classList has slip-swiping-container
    timeouts,               \* pending 101ms animation callbacks, oldest first
    last,                   \* history: what the last handler did
    place                   \* inputs/results of the placement computations

vars == <<options, dom, state, target, usingTouch, mouseHandlersAttached,
          canPreventScrolling, startPosition, latestPosition, previousPosition,
          scrollable, scrollTop, swipingClass, timeouts, last, place>>

----------------------------------------------------------------------------
(* Bounds of the model *)

MaxTimeouts == 1        \* pending animation callbacks
MaxSnapshot == 4        \* sibling snapshot length explored by SpecSplice
MaxChildren == 3        \* child nodes of the lists explored by SpecPlace

(* Program constants *)

HoldMaxX == 15
HoldMaxY == 25
SwipeMinX == 20
SwipeMaxY == 100
ScrollMinY == 20
SwipeDriftY == 20
VelocityWindow == 100
DefaultKeepSwipingPercent == 0
DefaultMinimumSwipeVelocity == 1
DefaultMinimumSwipeTime == 110

(* Environment: the container and the samples the platform delivers *)

ContainerWidth == 400       \* container.clientWidth

Abs(n) == IF n < 0 THEN -n ELSE n
Max(a, b) == IF a >= b THEN a ELSE b

TextNode == [kind |-> "text", h |-> 0, ignored |-> FALSE]
Elem(h) == [kind |-> "elem", h |-> h, ignored |-> FALSE]
IgnoredElem(h) == [kind |-> "elem", h |-> h, ignored |-> TRUE]

\* the list the machine is attached to: child 4 matches an ignoredElements
\* selector when that option is used
MainDom == <<Elem(40), TextNode, Elem(120), IgnoredElem(40)>>

\* a descendant of child n is node n + Inner
Inner == 10
RawTargets == {3, 1 + Inner}

\* the target of an event whose handler returns before it looks at the target
IgnoredTarget == 3

\* pointer samples: a session starts at (10, 5) at time 0; the moves are
\* given by their displacement from there and their time
StartX == 10
StartY == 5
StartSamples == {[x |-> StartX, y |-> StartY, time |-> 0]}
Displacements == {<<3, -4, 100>>, <<17, 0, 100>>, <<300, 0, 100>>, <<300, 0, 150>>, <<-75, 0, 150>>,
                  <<5, -30, 100>>, <<0, 70, 150>>, <<300, 110, 150>>}
ScrollTops == {0, 30}

\* options as passed to the constructor (0 / FALSE: not given)
OptionsIn == [keepSwipingPercent : {0, 50}, minimumSwipeVelocity : {0},
              minimumSwipeTime : {0}, ignoredElements : {FALSE}]

NoTarget == [node |-> 0, originalTarget |-> 0, height |-> 0, origScrollTop |-> 0]
NoPosition == [x |-> 0, y |-> 0, time |-> 0]

----------------------------------------------------------------------------
(* The DOM as Slip reads it *)

\* node.offsetHeight
OffsetHeight(d, n) == d[n].h

\* node.offsetTop in a vertical list: the heights of the children above it
RECURSIVE OffsetTop(_, _)
OffsetTop(d, n) == IF n <= 1 THEN 0 ELSE OffsetTop(d, n - 1) + d[n - 1].h

ParentNode(n) == IF n > Inner THEN n - Inner ELSE 0

\* findTargetNode: walk up to the direct child of the container
RECURSIVE FindTargetNode(_)
FindTargetNode(n) == IF ParentNode(n) # 0 THEN FindTargetNode(ParentNode(n)) ELSE n

\* the constructor's option defaults (options.x || default)
OptionDefaults(o) ==
    [keepSwipingPercent |-> IF o.keepSwipingPercent # 0 THEN o.keepSwipingPercent
                            ELSE DefaultKeepSwipingPercent,
     minimumSwipeVelocity |-> IF o.minimumSwipeVelocity # 0 THEN o.minimumSwipeVelocity
                            ELSE DefaultMinimumSwipeVelocity,
     minimumSwipeTime |-> IF o.minimumSwipeTime # 0 THEN o.minimumSwipeTime
                            ELSE DefaultMinimumSwipeTime,
     ignoredElements |-> o.ignoredElements]

\* the node list of states.reorder: the children that match no ignoredElements
\* selector when the option is set, else container.childNodes
ReorderNodes(d, ignoredElements) ==
    IF ignoredElements
    THEN SelectSeq([i \in DOMAIN d |-> i], LAMBDA i : d[i].kind = "elem" /\ ~d[i].ignored)
    ELSE [i \in DOMAIN d |-> i]

\* findIndex: listCount - 1 at the target, counting element nodes; 0 when the
\* target is not in the list
RECURSIVE findIndexFrom(_, _, _, _, _, _)
findIndexFrom(d, node, nodes, i, listCount, originalIndex) ==
    IF i > Len(nodes) THEN originalIndex
    ELSE IF d[nodes[i]].kind = "elem"
         THEN findIndexFrom(d, node, nodes, i + 1, listCount + 1,
                            IF nodes[i] = node THEN listCount ELSE originalIndex)
         ELSE findIndexFrom(d, node, nodes, i + 1, listCount, originalIndex)

findIndexOneBased(d, node, nodes) ==
    IF \E i \in DOMAIN nodes : nodes[i] = node
    THEN findIndexFrom(d, node, nodes, 1, 0, 0) + 1
    ELSE 0

findIndex(d, node, nodes) == findIndexFrom(d, node, nodes, 1, 0, 0)

\* otherNodes of states.reorder: every element of nodes but the target, with
\* pos = t + (t < zero ? offsetHeight : 0) - zero.  Heights are even, so
\* height / 2 is exact.
RECURSIVE otherNodesFrom(_, _, _, _, _)
otherNodesFrom(d, node, nodes, zero, i) ==
    IF i > Len(nodes) THEN <<>>
    ELSE IF d[nodes[i]].kind # "elem" \/ nodes[i] = node
         THEN otherNodesFrom(d, node, nodes, zero, i + 1)
         ELSE LET t == OffsetTop(d, nodes[i])
              IN <<[node |-> nodes[i],
                    pos |-> t + (IF t < zero THEN OffsetHeight(d, nodes[i]) ELSE 0) - zero]>>
                 \o otherNodesFrom(d, node, nodes, zero, i + 1)

otherNodesOfTopEdges(d, node, height, nodes) ==
    LET others == otherNodesFrom(d, node, nodes, OffsetTop(d, node) + height \div 2, 1)
    IN [k \in DOMAIN others |->
           [node |-> others[k].node,
            pos |-> OffsetTop(d, others[k].node) - (OffsetTop(d, node) + height \div 2)]]

otherNodesOf(d, node, height, nodes) ==
    otherNodesFrom(d, node, nodes, OffsetTop(d, node) + height \div 2, 1)

\* the two scans of states.reorder.onEnd; indices are 0-based as in the source
RECURSIVE scanUp(_, _, _)
scanUp(others, y, i) ==
    IF i < Len(others) /\ ~(others[i + 1].pos > y) THEN scanUp(others, y, i + 1) ELSE i

RECURSIVE scanDown(_, _, _)
scanDown(others, y, i) ==
    IF i >= 0 /\ ~(others[i + 1].pos < y) THEN scanDown(others, y, i - 1) ELSE i

spliceIndexOfLastSeen(others, y) ==
    IF y < 0 THEN scanUp(others, y, 0) ELSE scanDown(others, y, Len(others) - 1)

spliceIndexOf(others, y) ==
    IF y < 0 THEN scanUp(others, y, 0) ELSE scanDown(others, y, Len(others) - 1) + 1

insertBeforeOfOneBased(others, spliceIndex) ==
    IF spliceIndex \in DOMAIN others THEN others[spliceIndex].node ELSE 0

\* otherNodes[spliceIndex] ? otherNodes[spliceIndex].node : undefined (0)
insertBeforeOf(others, spliceIndex) ==
    IF spliceIndex + 1 \in DOMAIN others THEN others[spliceIndex + 1].node ELSE 0

\* what the reorder constructor records about the list
snapshotOf(d, node, height, ignoredElements) ==
    LET nodes == ReorderNodes(d, ignoredElements)
    IN [originalIndex |-> findIndex(d, node, nodes),
        otherNodes |-> otherNodesOf(d, node, height, nodes)]

reorderDetailAfter(others, originalIndex, y) ==
    LET spliceIndex == spliceIndexOf(others, y) + 1
    IN [spliceIndex |-> spliceIndex, originalIndex |-> originalIndex,
        insertBefore |-> insertBeforeOf(others, spliceIndex)]

reorderOffsetsUpTo(others, height, y) ==
    [i \in DOMAIN others |->
        IF others[i].pos < 0 /\ y < 0 /\ others[i].pos >= y THEN height
        ELSE IF others[i].pos > 0 /\ y > 0 /\ others[i].pos <= y THEN -height
        ELSE 0]

\* states.reorder.onMove, the offset it gives each sibling of the snapshot
reorderOffsets(others, height, y) ==
    [i \in DOMAIN others |->
        IF others[i].pos < 0 /\ y < 0 /\ others[i].pos > y THEN height
        ELSE IF others[i].pos > 0 /\ y > 0 /\ others[i].pos < y THEN -height
        ELSE 0]

\* the detail of the reorder notification
reorderDetail(others, originalIndex, y) ==
    LET spliceIndex == spliceIndexOf(others, y)
    IN [spliceIndex |-> spliceIndex, originalIndex |-> originalIndex,
        insertBefore |-> insertBeforeOf(others, spliceIndex)]

----------------------------------------------------------------------------
(* The machine record and the methods of Slip.prototype *)

\* a state object: the value a state constructor returns plus the variables
\* its callbacks close over.  onLeave names the state whose onEnd the swipe
\* constructor read from this.state.
StateObject(ctor) ==
    [ctor |-> ctor, holdTimer |-> FALSE, swipeSuccess |-> FALSE, originalIndex |-> 0,
     otherNodes |-> <<>>, mouseOutsideTimer |-> FALSE, onLeave |-> "none"]

Machine ==
    [state |-> state, target |-> target, usingTouch |-> usingTouch,
     mouseHandlersAttached |-> mouseHandlersAttached,
     canPreventScrolling |-> canPreventScrolling,
     startPosition |-> startPosition, latestPosition |-> latestPosition,
     previousPosition |-> previousPosition, scrollTop |-> scrollTop,
     swipingClass |-> swipingClass, timeouts |-> timeouts, log |-> <<>>,
     animations |-> <<>>, styles |-> <<>>]

NoDetail == [none |-> TRUE]

\* dispatch: fires slip:<name> on targetNode; dispatchEvent returns ~vetoed
dispatch(m, targetNode, name, detail, vetoed) ==
    [m EXCEPT !.log = Append(@, [name |-> name, target |-> targetNode,
                                 detail |-> detail, vetoed |-> vetoed])]

\* node.style[transformJSPropertyName] = 'translate(x px, y px) ...'
setTransform(m, node, x, y) ==
    [m EXCEPT !.styles = Append(@, [node |-> node, x |-> x, y |-> y])]

getTotalMovement(m) ==
    [x |-> m.latestPosition.x - m.startPosition.x,
     y |-> m.latestPosition.y - m.startPosition.y + (m.scrollTop - m.target.origScrollTop),
     time |-> m.latestPosition.time - m.startPosition.time]

getSignedMovement(m) ==
    LET move == getTotalMovement(m)
    IN [x |-> Abs(move.x), y |-> move.y, time |-> move.time,
        directionX |-> IF move.x < 0 THEN "left" ELSE "right",
        directionY |-> IF move.y < 0 THEN "up" ELSE "down"]

getAbsoluteMovement(m) ==
    LET move == getTotalMovement(m)
    IN [x |-> Abs(move.x), y |-> Abs(move.y), time |-> move.time,
        directionX |-> IF move.x < 0 THEN "left" ELSE "right",
        directionY |-> IF move.y < 0 THEN "up" ELSE "down"]

\* animateToZero: target = target || this.target; the transition to the
\* resting transform starts and the 101ms callback is queued.  A callback that
\* only restores styles of the node ("zIndex", "none") changes nothing the
\* model tracks and is not kept in the queue.
animateToZero(m, callback, node) ==
    [m EXCEPT !.animations = Append(@, [fn |-> "animateToZero", callback |-> callback,
                                        target |-> node]),
              !.timeouts = IF callback = "removeClass"
                           THEN Append(@, [fn |-> "animateToZero", callback |-> callback])
                           ELSE @]

\* animateSwipe: the transition off the list starts and the 101ms callback
\* (afterswipe) is queued for this.target.  The queued callback remembers the
\* notifications of the handler that queued it (history).
animateSwipe(m, callback) ==
    [m EXCEPT !.animations = Append(@, [fn |-> "animateSwipe", callback |-> callback,
                                        target |-> m.target.node]),
              !.timeouts = Append(@, [fn |-> "animateSwipe", callback |-> callback,
                                      target |-> m.target.node, log |-> m.log])]

leaveStateKeepsTimer(m) ==
    CASE m.state.ctor = "undecided" ->
            [m EXCEPT !.state.holdTimer = FALSE]
      [] m.state.ctor = "swipe" ->
            IF m.state.swipeSuccess
            THEN animateSwipe(m, "afterswipe")
            ELSE animateToZero(m, "removeClass", m.target.node)
      [] m.state.ctor = "reorder" ->
            animateToZero(m, "zIndex", m.target.node)
      [] OTHER -> m

\* the leaveState callback of the current state object
leaveState(m) ==
    CASE m.state.ctor = "undecided" ->
            [m EXCEPT !.state.holdTimer = FALSE]
      [] m.state.ctor = "swipe" ->
            IF m.state.swipeSuccess
            THEN animateSwipe(m, "afterswipe")
            ELSE animateToZero(m, "removeClass", m.target.node)
      [] m.state.ctor = "reorder" ->
            animateToZero([m EXCEPT !.state.mouseOutsideTimer = FALSE],
                          "zIndex", m.target.node)
      [] OTHER -> m

\* updateScrolling: the new scrollTop depends on the rectangles of the item and
\* of the scroll container and is an input here; it is clamped to
\* [0, maxScrollTop], which is 0 when the container cannot scroll
updateScrolling(m, newScrollTop) ==
    [m EXCEPT !.scrollTop = IF scrollable THEN newScrollTop ELSE 0]

\* states.reorder.onMove: returns false
reorderOnMove(m, so, e) ==
    [m |-> updateScrolling(m, e.scroll),
     so |-> [so EXCEPT !.mouseOutsideTimer = FALSE]]

idleStateInitKeepsTarget(m) ==
    [m |-> [m EXCEPT !.mouseHandlersAttached = FALSE, !.usingTouch = FALSE],
     so |-> StateObject("idle")]

idleStateInit(m) ==
    [m |-> [m EXCEPT !.mouseHandlersAttached = FALSE, !.target = NoTarget,
                     !.usingTouch = FALSE],
     so |-> StateObject("idle")]

swipeStateInit(m) ==
    [m |-> [m EXCEPT !.swipingClass = TRUE,
                     !.target.height = OffsetHeight(dom, m.target.node)],
     so |-> [StateObject("swipe") EXCEPT
                !.originalIndex = findIndex(dom, m.target.node, [i \in DOMAIN dom |-> i]),
                !.onLeave = m.state.ctor]]

reorderStateInit(m, e) ==
    LET height == OffsetHeight(dom, m.target.node)
        snapshot == snapshotOf(dom, m.target.node, height, options.ignoredElements)
        m1 == [m EXCEPT !.target.height = height]
        so == [StateObject("reorder") EXCEPT
                 !.originalIndex = snapshot.originalIndex,
                 !.otherNodes = snapshot.otherNodes]
    IN reorderOnMove(m1, so, e)

RECURSIVE setState(_, _, _), stateCtor(_, _, _)

undecidedStateInitOnItem(m, e) ==
    LET m1 == [m EXCEPT !.target.height = OffsetHeight(dom, m.target.node)]
        m2 == dispatch(m1, m1.target.node, "beforewait", NoDetail, e.beforewait)
        m3 == dispatch(m2, m2.target.node, "beforereorder", NoDetail, e.beforereorder)
    IN IF e.beforewait
       THEN [m |-> IF ~e.beforereorder THEN setState(m3, "reorder", e) ELSE m3,
             so |-> StateObject("undecided")]
       ELSE [m |-> m2, so |-> [StateObject("undecided") EXCEPT !.holdTimer = TRUE]]

undecidedStateInit(m, e) ==
    LET m1 == [m EXCEPT !.target.height = OffsetHeight(dom, m.target.node)]
        m2 == dispatch(m1, m1.target.originalTarget, "beforewait", NoDetail, e.beforewait)
        m3 == dispatch(m2, m2.target.originalTarget, "beforereorder", NoDetail,
                       e.beforereorder)
    IN IF e.beforewait
       THEN [m |-> IF ~e.beforereorder THEN setState(m3, "reorder", e) ELSE m3,
             so |-> StateObject("undecided")]
       ELSE [m |-> m2, so |-> [StateObject("undecided") EXCEPT !.holdTimer = TRUE]]

stateCtor(m, newStateCtor, e) ==
    CASE newStateCtor = "idle" -> idleStateInit(m)
      [] newStateCtor = "undecided" -> undecidedStateInit(m, e)
      [] newStateCtor = "swipe" -> swipeStateInit(m)
      [] newStateCtor = "reorder" -> reorderStateInit(m, e)

\* a timer set with setTimeout stays pending until it fires or clearTimeout is
\* called on it, whatever becomes of the state object that set it: the timers
\* of the old state object that are still pending are carried to the new one
pendingTimers(so, old) ==
    [so EXCEPT !.holdTimer = @ \/ old.holdTimer,
               !.mouseOutsideTimer = @ \/ old.mouseOutsideTimer]

\* setState: this.state === prevState holds unless the constructor installed
\* another state object, which then has another ctor
setState(m, newStateCtor, e) ==
    IF m.state.ctor = newStateCtor THEN m
    ELSE LET m1 == leaveState(m)
             next == stateCtor(m1, newStateCtor, e)
         IN IF next.m.state.ctor = m1.state.ctor
            THEN [next.m EXCEPT !.state = pendingTimers(next.so, m1.state)]
            ELSE next.m

----------------------------------------------------------------------------
(* The callbacks of the state objects; each returns the machine and the    *)
(* callback's return value ("true", "false" or "undefined")                *)

undecidedOnMoveHolds(m, e) ==
    LET move == getAbsoluteMovement(m)
        sideways == IF 10 * move.x > 12 * move.y THEN "false" ELSE "undefined"
        swipes == move.x > SwipeMinX /\ move.y < Max(SwipeMaxY, m.target.height)
        m1 == IF swipes
              THEN dispatch(m, m.target.originalTarget, "beforeswipe",
                            [directionX |-> move.directionX, directionY |-> move.directionY],
                            e.veto)
              ELSE m
    IN IF swipes /\ ~e.veto
       THEN [m |-> setState(m1, "swipe", e), ret |-> "false"]
       ELSE [m |-> IF swipes THEN setState(m1, "idle", e) ELSE m1, ret |-> sideways]

undecidedOnMove(m, e) ==
    LET move == getAbsoluteMovement(m)
        sideways == IF 10 * move.x > 12 * move.y THEN "false" ELSE "undefined"
        swipes == move.x > SwipeMinX /\ move.y < Max(SwipeMaxY, m.target.height)
        m1 == IF swipes
              THEN dispatch(m, m.target.originalTarget, "beforeswipe",
                            [directionX |-> move.directionX, directionY |-> move.directionY],
                            e.veto)
              ELSE m
    IN IF swipes /\ ~e.veto
       THEN [m |-> setState(m1, "swipe", e), ret |-> "false"]
       ELSE LET m2 == IF swipes THEN setState(m1, "idle", e) ELSE m1
                m3 == IF move.y > ScrollMinY THEN setState(m2, "idle", e) ELSE m2
            IN [m |-> m3, ret |-> sideways]

undecidedOnLeave(m, e) == [m |-> setState(m, "idle", e), ret |-> "undefined"]

undecidedOnEndAllowed(m, e) ==
    LET m1 == dispatch(m, m.target.originalTarget, "tap", NoDetail, e.veto)
    IN [m |-> setState(m1, "idle", e), ret |-> "true"]

undecidedOnEnd(m, e) ==
    LET m1 == dispatch(m, m.target.originalTarget, "tap", NoDetail, e.veto)
    IN [m |-> setState(m1, "idle", e), ret |-> IF e.veto THEN "false" ELSE "true"]

swipeOnMoveStays(m, e) ==
    LET move == getTotalMovement(m)
    IN IF m.target.height # 0 /\ Abs(move.y) < m.target.height + SwipeDriftY
       THEN LET m1 == dispatch(m, m.target.node, "animateswipe",
                               [x |-> move.x, originalIndex |-> m.state.originalIndex],
                               e.veto)
            IN [m |-> IF e.veto THEN m1 ELSE setTransform(m1, m.target.node, move.x, 0),
                ret |-> "false"]
       ELSE [m |-> dispatch(m, m.target.node, "cancelswipe", NoDetail, e.veto),
             ret |-> "undefined"]

swipeOnMoveForced(m, e) ==
    LET move == getTotalMovement(m)
    IN IF m.target.height # 0 /\ Abs(move.y) < m.target.height + SwipeDriftY
       THEN [m |-> setTransform(dispatch(m, m.target.node, "animateswipe",
                                         [x |-> move.x,
                                          originalIndex |-> m.state.originalIndex],
                                         e.veto),
                                m.target.node, move.x, 0),
             ret |-> "false"]
       ELSE [m |-> setState(dispatch(m, m.target.node, "cancelswipe", NoDetail, e.veto),
                            "idle", e),
             ret |-> "undefined"]

swipeOnMove(m, e) ==
    LET move == getTotalMovement(m)
    IN IF m.target.height # 0 /\ Abs(move.y) < m.target.height + SwipeDriftY
       THEN LET m1 == dispatch(m, m.target.node, "animateswipe",
                               [x |-> move.x, originalIndex |-> m.state.originalIndex],
                               e.veto)
            IN [m |-> IF e.veto THEN m1 ELSE setTransform(m1, m.target.node, move.x, 0),
                ret |-> "false"]
       ELSE [m |-> setState(dispatch(m, m.target.node, "cancelswipe", NoDetail, e.veto),
                            "idle", e),
             ret |-> "undefined"]

swipedFast(m) ==
    LET move == getAbsoluteMovement(m)
        fast == IF move.time = 0 THEN move.x > 0
                ELSE move.x > options.minimumSwipeVelocity * move.time
    IN fast /\ move.time > options.minimumSwipeTime

\* swiped: velocity = move.x / move.time compared as move.x > minimum * move.time
\* (move.time = 0 gives Infinity for move.x > 0 and NaN for move.x = 0);
\* swipedPercent > keepSwipingPercent compared after multiplying by clientWidth
swiped(m) ==
    LET move == getAbsoluteMovement(m)
        fast == IF move.time = 0 THEN move.x > 0
                ELSE move.x > options.minimumSwipeVelocity * move.time
        far == Abs(m.startPosition.x - m.previousPosition.x) * 100
                   > options.keepSwipingPercent * ContainerWidth
    IN (fast /\ move.time > options.minimumSwipeTime)
       \/ (options.keepSwipingPercent # 0 /\ far)

swipeOnEndSuccess(m, e) ==
    LET move == getAbsoluteMovement(m)
        m1 == IF swiped(m)
              THEN dispatch(m, m.target.node, "swipe",
                            [direction |-> move.directionX,
                             originalIndex |-> m.state.originalIndex], e.veto)
              ELSE dispatch(m, m.target.node, "cancelswipe", NoDetail, e.veto)
        m2 == IF swiped(m) THEN [m1 EXCEPT !.state.swipeSuccess = TRUE] ELSE m1
    IN [m |-> setState(m2, "idle", e), ret |-> IF swiped(m) THEN "false" ELSE "true"]

swipeOnEndUnlessVetoed(m, e) ==
    LET m1 == IF swiped(m)
              THEN dispatch(m, m.target.node, "swipe",
                            [direction |-> getAbsoluteMovement(m).directionX,
                             originalIndex |-> m.state.originalIndex], e.veto)
              ELSE dispatch(m, m.target.node, "cancelswipe", NoDetail, e.veto)
        m2 == IF swiped(m) /\ ~e.veto THEN [m1 EXCEPT !.state.swipeSuccess = TRUE] ELSE m1
    IN [m |-> setState(m2, "idle", e),
        ret |-> IF swiped(m) /\ ~e.veto THEN "false" ELSE "true"]

swipeOnEnd(m, e) ==
    LET move == getAbsoluteMovement(m)
        m1 == IF swiped(m)
              THEN dispatch(m, m.target.node, "swipe",
                            [direction |-> move.directionX,
                             originalIndex |-> m.state.originalIndex], e.veto)
              ELSE dispatch(m, m.target.node, "cancelswipe", NoDetail, e.veto)
        m2 == IF swiped(m) /\ ~e.veto THEN [m1 EXCEPT !.state.swipeSuccess = TRUE] ELSE m1
    IN [m |-> setState(m2, "idle", e), ret |-> IF swiped(m) THEN "false" ELSE "true"]

reorderOnLeave(m, e) ==
    [m |-> [m EXCEPT !.state.mouseOutsideTimer = TRUE], ret |-> "undefined"]

reorderOnEndUnlessVetoed(m, e) ==
    LET move == getTotalMovement(m)
        m1 == dispatch(m, m.target.node, "reorder",
                       reorderDetail(m.state.otherNodes, m.state.originalIndex, move.y),
                       e.veto)
    IN [m |-> IF e.veto THEN m1 ELSE setState(m1, "idle", e), ret |-> "false"]

reorderOnEnd(m, e) ==
    LET move == getTotalMovement(m)
        m1 == dispatch(m, m.target.node, "reorder",
                       reorderDetail(m.state.otherNodes, m.state.originalIndex, move.y),
                       e.veto)
    IN [m |-> setState(m1, "idle", e), ret |-> "false"]

Unhandled(m) == [m |-> m, ret |-> "none"]

\* this.state.onMove, when the state object has one
stateOnMove(m, e) ==
    CASE m.state.ctor = "undecided" -> undecidedOnMove(m, e)
      [] m.state.ctor = "swipe" -> swipeOnMove(m, e)
      [] m.state.ctor = "reorder" ->
            LET r == reorderOnMove(m, m.state, e)
            IN [m |-> [r.m EXCEPT !.state = r.so], ret |-> "false"]
      [] OTHER -> Unhandled(m)

stateOnEndSilent(m, e) ==
    CASE m.state.ctor = "undecided" -> [m |-> setState(m, "idle", e), ret |-> "undefined"]
      [] m.state.ctor = "swipe" -> swipeOnEnd(m, e)
      [] m.state.ctor = "reorder" -> reorderOnEnd(m, e)
      [] OTHER -> Unhandled(m)

\* this.state.onEnd
stateOnEnd(m, e) ==
    CASE m.state.ctor = "undecided" -> undecidedOnEnd(m, e)
      [] m.state.ctor = "swipe" -> swipeOnEnd(m, e)
      [] m.state.ctor = "reorder" -> reorderOnEnd(m, e)
      [] OTHER -> Unhandled(m)

\* this.state.onLeave; the swipe state's is the onEnd read from this.state
\* while the swipe constructor ran
stateOnLeave(m, e) ==
    CASE m.state.ctor = "undecided" -> undecidedOnLeave(m, e)
      [] m.state.ctor = "swipe" ->
            CASE m.state.onLeave = "undecided" -> undecidedOnEnd(m, e)
              [] m.state.onLeave = "swipe" -> swipeOnEnd(m, e)
              [] m.state.onLeave = "reorder" -> reorderOnEnd(m, e)
              [] OTHER -> Unhandled(m)
      [] m.state.ctor = "reorder" -> reorderOnLeave(m, e)
      [] OTHER -> Unhandled(m)

----------------------------------------------------------------------------
(* The event handlers *)

addMouseHandlers(m) == [m EXCEPT !.mouseHandlersAttached = TRUE]

\* setTarget for an event target inside an item; the scroll container is the
\* one whose scrollTop the model tracks
setTarget(m, raw) ==
    [m EXCEPT !.target = [originalTarget |-> raw, node |-> FindTargetNode(raw),
                          height |-> 0, origScrollTop |-> m.scrollTop]]

startAtPosition(m, pos, e) ==
    setState([m EXCEPT !.startPosition = pos, !.previousPosition = pos,
                       !.latestPosition = pos],
             "undecided", e)

onMouseDown(m, raw, button, pos, e) ==
    IF m.usingTouch \/ button # 0 THEN m
    ELSE startAtPosition([addMouseHandlers(setTarget(m, raw))
                             EXCEPT !.canPreventScrolling = TRUE], pos, e)

onTouchStartAnyTouches(m, touches, raw, pos, e) ==
    LET m1 == [m EXCEPT !.usingTouch = TRUE, !.canPreventScrolling = TRUE]
    IN IF touches > 1 THEN m1
       ELSE startAtPosition(setTarget(m1, raw), pos, e)

onTouchStart(m, touches, raw, pos, e) ==
    LET m1 == [m EXCEPT !.usingTouch = TRUE, !.canPreventScrolling = TRUE]
    IN IF touches > 1 THEN setState(m1, "idle", e)
       ELSE startAtPosition(setTarget(m1, raw), pos, e)

updatePositionFromWindow(m, pos, e) ==
    IF m.target = NoTarget THEN Unhandled(m)
    ELSE LET r == stateOnMove([m EXCEPT !.latestPosition = pos], e)
         IN [m |-> IF r.m.latestPosition.time - r.m.previousPosition.time >= VelocityWindow
                   THEN [r.m EXCEPT !.previousPosition = r.m.latestPosition]
                   ELSE r.m,
             ret |-> r.ret]

updatePosition(m, pos, e) ==
    IF m.target = NoTarget THEN Unhandled(m)
    ELSE LET r == stateOnMove([m EXCEPT !.latestPosition = pos], e)
         IN [m |-> IF r.m.latestPosition.time - r.m.previousPosition.time > VelocityWindow
                   THEN [r.m EXCEPT !.previousPosition = r.m.latestPosition]
                   ELSE r.m,
             ret |-> r.ret]

onMouseMove(m, pos, e) == updatePosition(m, pos, e)

onTouchMove(m, pos, e) ==
    LET r == updatePosition(m, pos, e)
    IN [m |-> [r.m EXCEPT !.canPreventScrolling = FALSE], ret |-> r.ret]

onMouseUpAllowed(m, button, e) ==
    IF m.usingTouch \/ button # 0 THEN Unhandled(m)
    ELSE [m |-> stateOnEnd(m, e).m, ret |-> "undefined"]

onMouseUp(m, button, e) ==
    IF m.usingTouch \/ button # 0 THEN Unhandled(m) ELSE stateOnEnd(m, e)

cancelUndecided(m, e) == IF m.state.ctor = "undecided" THEN setState(m, "idle", e) ELSE m

cancelEnters(m, e) ==
    IF m.state.ctor = "idle"
    THEN [idleStateInit(m).m EXCEPT !.state = idleStateInit(m).so]
    ELSE setState(m, "idle", e)

cancel(m, e) == setState(m, "idle", e)

onTouchEnd(m, touches, e) ==
    IF touches > 1 THEN [m |-> cancel(m, e), ret |-> "none"] ELSE stateOnEnd(m, e)

onMouseLeave(m, e) ==
    IF m.usingTouch THEN Unhandled(m) ELSE stateOnLeave(m, e)

holdTimerFiredWhileScrolling(m, e) ==
    LET move == getAbsoluteMovement(m)
        m1 == [m EXCEPT !.state.holdTimer = FALSE]
        m2 == dispatch(m1, m1.target.originalTarget, "beforereorder", NoDetail, e.veto)
    IN IF move.x < HoldMaxX /\ move.y < HoldMaxY
       THEN IF ~e.veto THEN setState(m2, "reorder", e) ELSE m2
       ELSE m1

\* the callback of holdTimer
holdTimerFired(m, e) ==
    LET move == getAbsoluteMovement(m)
        m1 == [m EXCEPT !.state.holdTimer = FALSE]
        m2 == dispatch(m1, m1.target.originalTarget, "beforereorder", NoDetail, e.veto)
    IN IF m.canPreventScrolling /\ move.x < HoldMaxX /\ move.y < HoldMaxY
       THEN IF ~e.veto THEN setState(m2, "reorder", e) ELSE m2
       ELSE m1

mouseOutsideTimerFiredDisarms(m, e) ==
    [m EXCEPT !.state.mouseOutsideTimer = FALSE]

\* the callback of mouseOutsideTimer
mouseOutsideTimerFired(m, e) ==
    cancel([m EXCEPT !.state.mouseOutsideTimer = FALSE], e)

timeoutFiredKeepsClass(m, t, e) ==
    IF t.fn = "animateToZero"
    THEN IF t.callback = "removeClass" THEN [m EXCEPT !.swipingClass = FALSE] ELSE m
    ELSE dispatch(m, t.target, "afterswipe", NoDetail, e.veto)

\* the callback a timeout of animateToZero or animateSwipe runs
timeoutFired(m, t, e) ==
    IF t.fn = "animateToZero"
    THEN IF t.callback = "removeClass" THEN [m EXCEPT !.swipingClass = FALSE] ELSE m
    ELSE LET m1 == dispatch(m, t.target, "afterswipe", NoDetail, e.veto)
         IN IF ~e.veto THEN [m1 EXCEPT !.swipingClass = FALSE]
            ELSE animateToZero(m1, "none", t.target)

----------------------------------------------------------------------------
(* Actions: one per handler or callback, with the inputs the platform and  *)
(* the listeners supply                                                    *)

\* the inputs of a handler: which of its notifications a listener vetoes and,
\* where updateScrolling runs, the scrollTop it sets
NoInput == [veto |-> FALSE, beforewait |-> FALSE, beforereorder |-> FALSE, scroll |-> 0]
Inputs == [veto : BOOLEAN, beforewait : BOOLEAN, beforereorder : BOOLEAN,
           scroll : IF scrollable THEN ScrollTops ELSE {0}]
Vetoes == {[NoInput EXCEPT !.veto = v] : v \in BOOLEAN}
\* in Undecided a pointer-down enters no state (setState returns on the same
\* constructor), so no listener is asked
EntryInputs ==
    IF state.ctor = "undecided" THEN {NoInput}
    ELSE {e \in Inputs : /\ ~e.veto
                         /\ e.beforereorder => e.beforewait
                         /\ e.scroll # 0 => (e.beforewait /\ ~e.beforereorder)}
MoveInputs == {e \in Inputs : /\ ~e.beforewait /\ ~e.beforereorder
                              /\ IF state.ctor = "reorder" THEN ~e.veto ELSE e.scroll = 0}
TimerInputs == {e \in Inputs : /\ ~e.beforewait /\ ~e.beforereorder
                               /\ e.scroll # 0 => ~e.veto}

MoveSamples == {[x |-> StartX + d[1], y |-> StartY + d[2], time |-> d[3]] :
                    d \in {c \in Displacements : c[3] >= latestPosition.time}}

NoPlace == [phase |-> "none"]
NoTimeout == [fn |-> "none"]

\* the notifications that classify a gesture
Outcomes == {"tap", "swipe", "cancelswipe", "reorder"}

\* the history record of a handler: what it was given and what it did;
\* outcomes counts the classifying notifications since the machine last left
\* Idle, those of this handler included
History(op, pointer, sample, r, base) ==
    [op |-> op, from |-> state.ctor, pointer |-> pointer,
     subject |-> target.node, original |-> target.originalTarget,
     outcomes |-> (IF state.ctor = "idle" THEN 0 ELSE last.outcomes)
                  + Cardinality({i \in DOMAIN r.m.log : r.m.log[i].name \in Outcomes}),
     timeout |-> IF op = "timeout" THEN Head(timeouts) ELSE NoTimeout,
     scrollOffset |-> IF target = NoTarget THEN 0 ELSE scrollTop - target.origScrollTop,
     itemHeight |-> IF target = NoTarget THEN 0 ELSE OffsetHeight(dom, target.node),
     otherNodes |-> state.otherNodes,
     log |-> r.m.log, ret |-> r.ret, animations |-> r.m.animations,
     styles |-> r.m.styles, sample |-> sample]

\* base is the number of callbacks pending from earlier handlers: a handler
\* queues callbacks only while fewer than MaxTimeouts are pending, and when it
\* has left more than MaxTimeouts pending, a callback runs before the next event
CommitMachine(op, pointer, sample, r, base) ==
    /\ IF base < MaxTimeouts THEN TRUE ELSE Len(r.m.timeouts) <= base
    /\ IF op = "timeout" THEN TRUE ELSE Len(timeouts) <= MaxTimeouts
    /\ state' = r.m.state
    /\ target' = r.m.target
    /\ usingTouch' = r.m.usingTouch
    /\ mouseHandlersAttached' = r.m.mouseHandlersAttached
    /\ canPreventScrolling' = r.m.canPreventScrolling
    /\ startPosition' = r.m.startPosition
    /\ latestPosition' = r.m.latestPosition
    /\ previousPosition' = r.m.previousPosition
    /\ scrollTop' = r.m.scrollTop
    /\ swipingClass' = r.m.swipingClass
    /\ timeouts' = r.m.timeouts
    /\ last' = History(op, pointer, sample, r, base)
    /\ UNCHANGED <<options, dom, scrollable>>

Commit(op, pointer, sample, r, base) ==
    /\ CommitMachine(op, pointer, sample, r, base)
    /\ UNCHANGED place

\* the handler returns before it looks at the target when a touch is in use or
\* the button is not the main one
MouseDownInputs ==
    IF usingTouch
    THEN {[raw |-> IgnoredTarget, button |-> b, e |-> NoInput] : b \in {0, 2}}
    ELSE {[raw |-> raw, button |-> 0, e |-> e] : raw \in RawTargets, e \in EntryInputs}
         \cup {[raw |-> IgnoredTarget, button |-> 2, e |-> NoInput]}

MouseDown ==
    \E inp \in MouseDownInputs, pos \in StartSamples :
        Commit("mousedown", ~usingTouch /\ inp.button = 0, pos,
               [m |-> onMouseDown(Machine, inp.raw, inp.button, pos, inp.e), ret |-> "none"],
               Len(timeouts))

\* with more than one touch the handler does not look at the target
TouchStartInputs ==
    {[touches |-> 1, raw |-> raw, e |-> e] : raw \in RawTargets, e \in EntryInputs}
    \cup {[touches |-> 2, raw |-> IgnoredTarget, e |-> NoInput]}

TouchStart ==
    \E inp \in TouchStartInputs, pos \in StartSamples :
        Commit("touchstart", inp.touches <= 1, pos,
               [m |-> onTouchStart(Machine, inp.touches, inp.raw, pos, inp.e), ret |-> "none"],
               Len(timeouts))

\* without a target updatePosition returns at once, whatever the sample is
StraySample == [x |-> StartX + 1, y |-> StartY + 1, time |-> 150]
TouchMoveInputs ==
    IF target = NoTarget THEN {[pos |-> StraySample, e |-> NoInput]}
    ELSE {[pos |-> pos, e |-> e] : pos \in MoveSamples, e \in MoveInputs}

MouseMove ==
    /\ mouseHandlersAttached
    /\ \E inp \in TouchMoveInputs :
        Commit("mousemove", target # NoTarget, inp.pos, onMouseMove(Machine, inp.pos, inp.e),
               Len(timeouts))

TouchMove ==
    \E inp \in TouchMoveInputs :
        Commit("touchmove", target # NoTarget, inp.pos, onTouchMove(Machine, inp.pos, inp.e),
               Len(timeouts))

\* the Idle state has no onEnd and no onLeave, so no listener is asked
EndVetoes == IF state.ctor = "idle" THEN {NoInput} ELSE Vetoes

\* another button than the main one is ignored
MouseUpInputs ==
    {[button |-> 0, e |-> e] : e \in EndVetoes} \cup {[button |-> 2, e |-> NoInput]}

MouseUp ==
    /\ mouseHandlersAttached
    /\ \E inp \in MouseUpInputs :
        Commit("mouseup", ~usingTouch /\ inp.button = 0, latestPosition,
               onMouseUp(Machine, inp.button, inp.e), Len(timeouts))

\* with touches left on the screen the handler cancels
TouchEndInputs ==
    {[touches |-> 0, e |-> e] : e \in EndVetoes} \cup {[touches |-> 2, e |-> NoInput]}

TouchEnd ==
    \E inp \in TouchEndInputs :
        Commit("touchend", inp.touches <= 1, latestPosition,
               onTouchEnd(Machine, inp.touches, inp.e), Len(timeouts))

MouseLeave ==
    /\ mouseHandlersAttached
    /\ \E e \in EndVetoes :
        Commit("mouseleave", ~usingTouch, latestPosition, onMouseLeave(Machine, e),
               Len(timeouts))

\* cancel(): touchcancel on the container, blur of the window, or the
\* application calling it
Cancel ==
    Commit("cancel", TRUE, latestPosition,
           [m |-> cancel(Machine, NoInput), ret |-> "none"], Len(timeouts))

HoldTimer ==
    /\ state.holdTimer
    /\ \E e \in TimerInputs :
        Commit("holdTimer", TRUE, latestPosition,
               [m |-> holdTimerFired(Machine, e), ret |-> "none"], Len(timeouts))

MouseOutsideTimer ==
    /\ state.mouseOutsideTimer
    /\ Commit("mouseOutsideTimer", TRUE, latestPosition,
              [m |-> mouseOutsideTimerFired(Machine, NoInput), ret |-> "none"],
              Len(timeouts))

\* only the callback of animateSwipe dispatches a notification
TimeoutVetoes == IF Head(timeouts).fn = "animateToZero" THEN {NoInput} ELSE Vetoes

Timeout ==
    /\ timeouts # <<>>
    /\ \E e \in TimeoutVetoes :
        Commit("timeout", TRUE, latestPosition,
               [m |-> timeoutFired([Machine EXCEPT !.timeouts = Tail(@)], Head(timeouts), e),
                ret |-> "none"],
               Len(timeouts) - 1)

\* the page scrolls under the pointer: possible while the gesture is
\* undecided, every move of the other states being consumed
Scroll ==
    /\ scrollable
    /\ state.ctor = "undecided"
    /\ \E s \in ScrollTops \ {scrollTop} : scrollTop' = s
    /\ UNCHANGED <<options, dom, state, target, usingTouch, mouseHandlersAttached,
                   canPreventScrolling, startPosition, latestPosition, previousPosition,
                   scrollable, swipingClass, timeouts, last, place>>

NoHistory ==
    [op |-> "new", from |-> "idle", pointer |-> FALSE, subject |-> 0, original |-> 0,
     outcomes |-> 0,
     timeout |-> NoTimeout, scrollOffset |-> 0, itemHeight |-> 0,
     otherNodes |-> <<>>, log |-> <<>>, ret |-> "none", animations |-> <<>>,
     styles |-> <<>>, sample |-> NoPosition]

\* new Slip(container, options): defaults, setState(idle), attach
Constructed ==
    /\ state = StateObject("idle")
    /\ target = NoTarget
    /\ usingTouch = FALSE
    /\ mouseHandlersAttached = FALSE
    /\ canPreventScrolling = FALSE
    /\ startPosition = NoPosition
    /\ latestPosition = NoPosition
    /\ previousPosition = NoPosition
    /\ scrollTop = 0
    /\ swipingClass = FALSE
    /\ timeouts = <<>>
    /\ last = NoHistory

\* a Slip on the list MainDom, in a page that does not scroll
Init ==
    /\ options \in {OptionDefaults(o) : o \in OptionsIn}
    /\ dom = MainDom
    /\ Constructed
    /\ scrollable = FALSE
    /\ place = NoPlace

Next ==
    \/ MouseDown
    \/ TouchStart
    \/ MouseMove
    \/ TouchMove
    \/ MouseUp
    \/ TouchEnd
    \/ MouseLeave
    \/ Cancel
    \/ HoldTimer
    \/ MouseOutsideTimer
    \/ Timeout

Spec == Init /\ [][Next]_vars

\* the same Slip driven by touch in a page that scrolls
InitScroll ==
    /\ options = OptionDefaults([keepSwipingPercent |-> 0, minimumSwipeVelocity |-> 0,
                                 minimumSwipeTime |-> 0, ignoredElements |-> FALSE])
    /\ dom = MainDom
    /\ Constructed
    /\ scrollable = TRUE
    /\ place = NoPlace

NextScroll ==
    \/ TouchStart
    \/ TouchMove
    \/ TouchEnd
    \/ HoldTimer
    \/ Timeout
    \/ Scroll

SpecScroll == InitScroll /\ [][NextScroll]_vars

----------------------------------------------------------------------------
(* The placement computations of states.reorder on their own: the inputs   *)
(* are drawn by the initial state and the actions apply the operators the  *)
(* reorder constructor and its onEnd use                                   *)

SnapshotDistances == {-50, -10, 30, 70}
DropYs == {-60, -40, -10, 0, 20, 30, 80}

RECURSIVE SeqsUpTo(_, _)
SeqsUpTo(S, n) ==
    IF n = 0 THEN {<<>>}
    ELSE LET shorter == SeqsUpTo(S, n - 1)
         IN shorter \cup {Append(q, x) : q \in {r \in shorter : Len(r) = n - 1}, x \in S}

\* sibling snapshots with the distances of any layout
Snapshots ==
    {[i \in DOMAIN q |-> [node |-> i, pos |-> q[i]]] : q \in SeqsUpTo(SnapshotDistances, MaxSnapshot)}

\* lists of 40px items, text nodes between them, some items matching an
\* ignoredElements selector
ListHeight == 40
ListYs == {-70, -30, 0, 30, 70}
Lists(ignoredElements) ==
    SeqsUpTo({TextNode, Elem(ListHeight)}
             \cup (IF ignoredElements THEN {IgnoredElem(ListHeight)} ELSE {}), MaxChildren)

\* states.reorder, the part that reads the list; swipeIndex is what
\* states.swipe records for the same item
PlaceSnapshot ==
    /\ place.phase = "list"
    /\ place' = [phase |-> "snapshot", node |-> place.node, y |-> place.y,
                 swipeIndex |-> findIndex(dom, place.node, [i \in DOMAIN dom |-> i]),
                 originalIndex |-> snapshotOf(dom, place.node, OffsetHeight(dom, place.node),
                                              options.ignoredElements).originalIndex,
                 otherNodes |-> snapshotOf(dom, place.node, OffsetHeight(dom, place.node),
                                           options.ignoredElements).otherNodes]
    /\ UNCHANGED <<options, dom, state, target, usingTouch, mouseHandlersAttached,
                   canPreventScrolling, startPosition, latestPosition, previousPosition,
                   scrollable, scrollTop, swipingClass, timeouts, last>>

\* states.reorder.onMove at the total movement y, the part that places the
\* siblings of a subject ListHeight high
PlaceMove ==
    /\ place.phase = "snapshot"
    /\ place' = [phase |-> "moved", node |-> place.node, y |-> place.y,
                 originalIndex |-> place.originalIndex, otherNodes |-> place.otherNodes,
                 offsets |-> reorderOffsets(place.otherNodes, ListHeight, place.y)]
    /\ UNCHANGED <<options, dom, state, target, usingTouch, mouseHandlersAttached,
                   canPreventScrolling, startPosition, latestPosition, previousPosition,
                   scrollable, scrollTop, swipingClass, timeouts, last>>

\* states.reorder.onEnd, the part that computes the notification; the drop
\* follows a move to the same total movement
PlaceDrop ==
    /\ place.phase = "moved"
    /\ place' = [phase |-> "dropped", node |-> place.node, y |-> place.y,
                 originalIndex |-> place.originalIndex, otherNodes |-> place.otherNodes,
                 offsets |-> place.offsets,
                 detail |-> reorderDetail(place.otherNodes, place.originalIndex, place.y)]
    /\ UNCHANGED <<options, dom, state, target, usingTouch, mouseHandlersAttached,
                   canPreventScrolling, startPosition, latestPosition, previousPosition,
                   scrollable, scrollTop, swipingClass, timeouts, last>>

DefaultOptions ==
    OptionDefaults([keepSwipingPercent |-> 0, minimumSwipeVelocity |-> 0,
                    minimumSwipeTime |-> 0, ignoredElements |-> FALSE])

InitSplice ==
    /\ options = DefaultOptions
    /\ dom = MainDom
    /\ Constructed
    /\ scrollable = FALSE
    /\ place \in {[phase |-> "snapshot", node |-> 0, y |-> y, originalIndex |-> 0,
                   otherNodes |-> o] : o \in Snapshots, y \in DropYs}

NextSplice ==
    \/ PlaceMove
    \/ PlaceDrop

SpecSplice == InitSplice /\ [][NextSplice]_vars

InitPlace ==
    /\ options \in {[DefaultOptions EXCEPT !.ignoredElements = b] : b \in BOOLEAN}
    /\ dom \in Lists(options.ignoredElements)
    /\ Constructed
    /\ scrollable = FALSE
    /\ place \in {[phase |-> "list", node |-> n, y |-> y] :
                    n \in {i \in DOMAIN dom : dom[i].kind = "elem"}, y \in ListYs}

NextPlace ==
    \/ PlaceSnapshot
    \/ PlaceMove
    \/ PlaceDrop

SpecPlace == InitPlace /\ [][NextPlace]_vars

\* findTargetNode, one iteration of its loop at a time, in pages where the
\* container has 1..MaxAbove ancestors (node 0 is the document, whose parentNode
\* is null) and the item, the container's child, holds a chain of 0..MaxBelow
\* nested descendants; the item is child WalkItem of MainDom
MaxAbove == 3
MaxBelow == 2
NullNode == -1
WalkItem == 3
Pages == [above : 1..MaxAbove, below : 0..MaxBelow]
PageNodes(p) == 0..(p.above + 1 + p.below)

\* node.parentNode
PageParent(n) == IF n <= 0 THEN NullNode ELSE n - 1

\* the loop condition: targetNode && targetNode.parentNode !== this.container
WalkGoesOn(w) == w.node # NullNode /\ PageParent(w.node) # w.page.above

\* the loop body: if (targetNode.parentNode != null) targetNode = targetNode.parentNode
WalkStep ==
    /\ place.phase = "walk"
    /\ WalkGoesOn(place)
    /\ place' = [place EXCEPT !.node = IF PageParent(@) # NullNode THEN PageParent(@) ELSE @,
                               !.turn = 1 - @]
    /\ UNCHANGED <<options, dom, state, target, usingTouch, mouseHandlersAttached,
                   canPreventScrolling, startPosition, latestPosition, previousPosition,
                   scrollable, scrollTop, swipingClass, timeouts, last>>

\* return targetNode, and the rest of onMouseDown: setTarget goes to Idle and
\* reports failure for null, and the session starts on the node found
WalkReturn ==
    /\ place.phase = "walk"
    /\ ~WalkGoesOn(place)
    /\ place' = [place EXCEPT !.phase = "returned"]
    /\ IF place.node = NullNode
       THEN CommitMachine("mousedown", FALSE, latestPosition,
                          [m |-> setState(Machine, "idle", NoInput), ret |-> "none"],
                          Len(timeouts))
       ELSE \E pos \in StartSamples, e \in EntryInputs :
              CommitMachine("mousedown", TRUE, pos,
                            [m |-> onMouseDown(Machine,
                                               WalkItem + (place.start - place.node) * Inner,
                                               0, pos, e),
                             ret |-> "none"],
                            Len(timeouts))

\* a mousedown whose target is null or any node of the page
InitWalk ==
    /\ options = DefaultOptions
    /\ dom = MainDom
    /\ Constructed
    /\ scrollable = FALSE
    /\ place \in {[phase |-> "walk", page |-> p, start |-> n, node |-> n, turn |-> 0] :
                    p \in Pages, n \in {NullNode} \cup 0..(MaxAbove + 1 + MaxBelow)}
    /\ place.start \in {NullNode} \cup PageNodes(place.page)

NextWalk ==
    \/ WalkStep
    \/ WalkReturn

\* the loop runs on as long as its condition holds
SpecWalk == InitWalk /\ [][NextWalk]_vars /\ WF_vars(WalkStep) /\ WF_vars(WalkReturn)

----------------------------------------------------------------------------
(* attach and detach of the instances of one page: what they do to the     *)
(* variables the instances share, globalInstances and                      *)
(* attachedBodyHandlerHack.  The instances are Idle, so the cancel() that   *)
(* detach starts with changes nothing.                                      *)

MaxInstances == 2       \* Slip objects of the page
MaxGlobal == 3          \* attach and detach are called while |globalInstances| < MaxGlobal
Containers == {1, 2}

\* this.container (0: not set yet) and whether the listeners of the instance
\* are on it
NoInstance == [container |-> 0, attached |-> FALSE]

\* detach()
detach(p, i) ==
    [p EXCEPT !.instances[i].attached = FALSE,
              !.globalInstances = @ - 1,
              !.attachedBodyHandlerHack =
                  IF p.globalInstances - 1 = 0 /\ @ THEN FALSE ELSE @]

\* attach(container)
attach(p, i, c) ==
    LET p1 == [p EXCEPT !.globalInstances = @ + 1]
        p2 == IF p1.instances[i].container # 0 THEN detach(p1, i) ELSE p1
        p3 == IF ~p2.attachedBodyHandlerHack /\ p2.needsBodyHandlerHack
              THEN [p2 EXCEPT !.attachedBodyHandlerHack = TRUE]
              ELSE p2
    IN [p3 EXCEPT !.instances[i] = [container |-> c, attached |-> TRUE]]

\* new Slip(container): the constructor attaches
NewSlip ==
    /\ place.phase = "page"
    /\ place.globalInstances < MaxGlobal
    /\ \E i \in 1..MaxInstances, c \in Containers :
        /\ place.instances[i].container = 0
        /\ place' = attach(place, i, c)
    /\ UNCHANGED <<options, dom, state, target, usingTouch, mouseHandlersAttached,
                   canPreventScrolling, startPosition, latestPosition, previousPosition,
                   scrollable, scrollTop, swipingClass, timeouts, last>>

\* slip.attach(container) of the application
Attach ==
    /\ place.phase = "page"
    /\ place.globalInstances < MaxGlobal
    /\ \E i \in 1..MaxInstances, c \in Containers :
        /\ place.instances[i].container # 0
        /\ place' = attach(place, i, c)
    /\ UNCHANGED <<options, dom, state, target, usingTouch, mouseHandlersAttached,
                   canPreventScrolling, startPosition, latestPosition, previousPosition,
                   scrollable, scrollTop, swipingClass, timeouts, last>>

\* slip.detach() of the application
Detach ==
    /\ place.phase = "page"
    /\ place.globalInstances > -MaxGlobal
    /\ \E i \in 1..MaxInstances :
        /\ place.instances[i].container # 0
        /\ place' = detach(place, i)
    /\ UNCHANGED <<options, dom, state, target, usingTouch, mouseHandlersAttached,
                   canPreventScrolling, startPosition, latestPosition, previousPosition,
                   scrollable, scrollTop, swipingClass, timeouts, last>>

\* a page before any Slip is made, in a browser that needs the body listener
\* or in one that does not
InitAttach ==
    /\ options = DefaultOptions
    /\ dom = MainDom
    /\ Constructed
    /\ scrollable = FALSE
    /\ place \in {[phase |-> "page", needsBodyHandlerHack |-> b, globalInstances |-> 0,
                   attachedBodyHandlerHack |-> FALSE,
                   instances |-> [i \in 1..MaxInstances |-> NoInstance]] : b \in BOOLEAN}

NextAttach ==
    \/ NewSlip
    \/ Attach
    \/ Detach

SpecAttach == InitAttach /\ [][NextAttach]_vars

----------------------------------------------------------------------------
(* Properties.  They read the history record `last` of the handler that    *)
(* ran last, and the state it left behind.                                 *)

\* the notifications of the last handler that carry the given name
Dispatched(name) == {i \in DOMAIN last.log : last.log[i].name = name}

EventNames == [i \in DOMAIN last.log |-> last.log[i].name]

\* the movement the last handler saw: from the start sample to the latest one,
\* the vertical part corrected by the scroll offset
MovedX == latestPosition.x - startPosition.x
MovedY == latestPosition.y - startPosition.y + last.scrollOffset
MovedTime == latestPosition.time - startPosition.time

\* a move, a pointer-up, a pointer-down that reached the state machine
MoveHandled == last.op \in {"mousemove", "touchmove"} /\ last.pointer
EndHandled == last.op \in {"mouseup", "touchend"} /\ last.pointer
DownHandled == last.op \in {"mousedown", "touchstart"} /\ last.pointer

\* C1: in Undecided, every move with |dx| > 20 and |dy| < max(100, itemHeight)
\* dispatches exactly one beforeswipe with directionX = left if dx < 0 else
\* right; not vetoed, the state becomes Swiping and the move is consumed;
\* vetoed, the state becomes Idle
C1_BeforeSwipe ==
    (/\ MoveHandled
     /\ last.from = "undecided"
     /\ Abs(MovedX) > 20
     /\ Abs(MovedY) < Max(100, last.itemHeight))
    => /\ Cardinality(Dispatched("beforeswipe")) = 1
       /\ \A i \in Dispatched("beforeswipe") :
            /\ last.log[i].detail.directionX = (IF MovedX < 0 THEN "left" ELSE "right")
            /\ IF last.log[i].vetoed
               THEN state.ctor = "idle"
               ELSE state.ctor = "swipe" /\ last.ret = "false"

\* C2: the hold timer firing in Undecided dispatches beforereorder if and only
\* if |dx| < 15, |dy| < 25 and scrolling can still be prevented; the state
\* becomes Reordering when beforereorder is dispatched and not vetoed, and
\* stays Undecided otherwise
C2_HoldTimer ==
    last.op = "holdTimer"
    => /\ last.from = "undecided"
       /\ Cardinality(Dispatched("beforereorder")) <= 1
       /\ (Dispatched("beforereorder") # {})
            <=> (Abs(MovedX) < 15 /\ Abs(MovedY) < 25 /\ canPreventScrolling)
       /\ IF \E i \in Dispatched("beforereorder") : ~last.log[i].vetoed
          THEN state.ctor = "reorder"
          ELSE state.ctor = "undecided"

\* C2 happens: the timer fired with the page scrolled by 25px or more under a
\* pointer that did not move, and nothing was dispatched
C2_Witness ==
    /\ last.op = "holdTimer"
    /\ Abs(MovedX) < 15
    /\ Abs(MovedY) >= 25
    /\ canPreventScrolling
    /\ last.log = <<>>
    /\ state.ctor = "undecided"

\* C3: when beforewait is vetoed on entry to Undecided, no hold timer is armed
\* and beforereorder is dispatched next; beforereorder not vetoed, the machine
\* is in Reordering when the pointer-down handler returns; vetoed, it is in
\* Undecided
C3_VetoedWait ==
    \A i \in Dispatched("beforewait") :
        (DownHandled /\ last.log[i].vetoed)
        => /\ ~state.holdTimer
           /\ i + 1 \in Dispatched("beforereorder")
           /\ IF last.log[i + 1].vetoed
              THEN state.ctor = "undecided"
              ELSE state.ctor = "reorder"

\* C4: a pointer-up in Undecided dispatches exactly one tap, leaves the
\* machine in Idle and returns true exactly when the tap was not vetoed
C4_Tap ==
    (EndHandled /\ last.from = "undecided")
    => /\ EventNames = <<"tap">>
       /\ state.ctor = "idle"
       /\ (last.ret = "true") <=> ~last.log[1].vetoed
       /\ last.ret \in {"true", "false"}

\* C4 happens: a listener vetoed the tap of a pointer-up in Undecided
C4_Witness ==
    /\ EndHandled
    /\ last.from = "undecided"
    /\ EventNames = <<"tap">>
    /\ last.log[1].vetoed
    /\ last.ret = "false"

\* the 0-based indices of the snapshot entries, as the source counts them
FurtherThan(others, y) == {i \in 0 .. Len(others) - 1 : others[i + 1].pos > y}
NearerThan(others, y) == {i \in 0 .. Len(others) - 1 : others[i + 1].pos < y}
Least(S) == CHOOSE i \in S : \A j \in S : i <= j
Greatest(S) == CHOOSE i \in S : \A j \in S : i >= j

\* C5: for every snapshot and every dy, spliceIndex is, for dy < 0, the index
\* of the first sibling whose distance is greater than dy, or the snapshot
\* count if there is none; for dy >= 0, one past the index of the last
\* sibling whose distance is less than dy, or 0 if there is none; distances
\* [-50, -10, 30, 70] with dy = -40 give 1
C5_SpliceIndex ==
    place.phase = "dropped"
    => /\ place.detail.spliceIndex =
            IF place.y < 0
            THEN IF FurtherThan(place.otherNodes, place.y) # {}
                 THEN Least(FurtherThan(place.otherNodes, place.y))
                 ELSE Len(place.otherNodes)
            ELSE IF NearerThan(place.otherNodes, place.y) # {}
                 THEN Greatest(NearerThan(place.otherNodes, place.y)) + 1
                 ELSE 0
       /\ ([i \in DOMAIN place.otherNodes |-> place.otherNodes[i].pos] = <<-50, -10, 30, 70>>
           /\ place.y = -40)
          => place.detail.spliceIndex = 1

\* C5 happens: the drop of the example
C5_Witness ==
    /\ place.phase = "dropped"
    /\ [i \in DOMAIN place.otherNodes |-> place.otherNodes[i].pos] = <<-50, -10, 30, 70>>
    /\ place.y = -40
    /\ place.detail.spliceIndex = 1

\* the README's use of the notification: an array mirroring the container's
\* element children, updated with two splices, and node.insertBefore
ElementChildren(children) == SelectSeq(children, LAMBDA n : dom[n].kind = "elem")

Without(q, i) == SubSeq(q, 1, i - 1) \o SubSeq(q, i + 1, Len(q))
InsertedAt(q, i, x) == SubSeq(q, 1, i - 1) \o <<x>> \o SubSeq(q, i, Len(q))

\* itemsArray.splice(originalIndex, 1); itemsArray.splice(spliceIndex, 0, movedItem)
ArrayMoved(items, originalIndex, spliceIndex) ==
    LET rest == Without(items, originalIndex + 1)
    IN InsertedAt(rest, (IF spliceIndex > Len(rest) THEN Len(rest) ELSE spliceIndex) + 1,
                  items[originalIndex + 1])

\* parentNode.insertBefore(subject, reference); no reference appends
ListMoved(children, subject, reference) ==
    LET rest == SelectSeq(children, LAMBDA n : n # subject)
        at == IF reference = 0 THEN Len(rest) + 1
              ELSE CHOOSE i \in DOMAIN rest : rest[i] = reference
    IN InsertedAt(rest, at, subject)

\* C6: for every reorder notification, removing the element at originalIndex
\* from an array mirroring the container's element children and inserting it
\* at spliceIndex gives the order that insertBefore(subject, insertBefore)
\* gives the list
C6_Consistent ==
    place.phase = "dropped"
    => ArrayMoved(ElementChildren([i \in DOMAIN dom |-> i]),
                  place.detail.originalIndex, place.detail.spliceIndex)
       = ElementChildren(ListMoved([i \in DOMAIN dom |-> i], place.node,
                                   place.detail.insertBefore))

\* C7: in every reorder notification insertBefore is the node of the snapshot
\* entry at position spliceIndex, and it is none exactly when spliceIndex is
\* the number of snapshot entries
C7_InsertBefore ==
    \A i \in Dispatched("reorder") :
        LET detail == last.log[i].detail
        IN /\ detail.spliceIndex \in 0 .. Len(last.otherNodes)
           /\ (detail.insertBefore = 0) <=> (detail.spliceIndex = Len(last.otherNodes))
           /\ detail.spliceIndex < Len(last.otherNodes)
              => detail.insertBefore = last.otherNodes[detail.spliceIndex + 1].node

\* C7 happens: a drop below the first of two siblings names the second
C7_Witness ==
    \E i \in Dispatched("reorder") :
        /\ Len(last.otherNodes) = 2
        /\ last.log[i].detail.spliceIndex = 1
        /\ last.log[i].detail.insertBefore = last.otherNodes[2].node

\* the confirmation rule of C8, on the movement of the last handler
Confirmed ==
    \/ /\ MovedTime > options.minimumSwipeTime
       /\ Abs(MovedX) > options.minimumSwipeVelocity * MovedTime
    \/ /\ options.keepSwipingPercent # 0
       /\ Abs(startPosition.x - previousPosition.x) * 100
            > options.keepSwipingPercent * ContainerWidth

C9_VetoedSwipe ==
    /\ (EndHandled /\ last.from = "swipe")
       => \A i \in DOMAIN last.log :
            (last.log[i].name = "cancelswipe"
             \/ (last.log[i].name = "swipe" /\ last.log[i].vetoed))
            => last.animations = <<[fn |-> "animateToZero", callback |-> "removeClass",
                                    target |-> last.log[i].target]>>
    /\ \A k \in DOMAIN timeouts :
         timeouts[k].fn = "animateSwipe"
         => \E i \in DOMAIN timeouts[k].log :
              timeouts[k].log[i].name = "swipe" /\ ~timeouts[k].log[i].vetoed
    /\ Dispatched("afterswipe") # {}
       => /\ last.op = "timeout"
          /\ \E i \in DOMAIN last.timeout.log :
               /\ last.timeout.log[i].name = "swipe"
               /\ ~last.timeout.log[i].vetoed
               /\ \A j \in Dispatched("afterswipe") :
                    last.log[j].target = last.timeout.log[i].target

\* C9 happens: a confirmed swipe was vetoed and the item animates back
C9_Witness ==
    /\ EndHandled
    /\ last.from = "swipe"
    /\ EventNames = <<"swipe">>
    /\ last.log[1].vetoed
    /\ Len(last.animations) = 1
    /\ last.animations[1].fn = "animateToZero"

\* C10: a pointer-up in Reordering dispatches exactly one reorder carrying
\* spliceIndex, originalIndex and insertBefore, and the machine is then in
\* Idle whether or not the notification was vetoed
C10_ReorderEnd ==
    (EndHandled /\ last.from = "reorder")
    => /\ EventNames = <<"reorder">>
       /\ DOMAIN last.log[1].detail = {"spliceIndex", "originalIndex", "insertBefore"}
       /\ state.ctor = "idle"

\* C10 happens: the reorder notification was vetoed
C10_Witness ==
    /\ EndHandled
    /\ last.from = "reorder"
    /\ EventNames = <<"reorder">>
    /\ last.log[1].vetoed
    /\ state.ctor = "idle"

\* the classifying notifications of the last handler
OutcomesDispatched == {i \in DOMAIN last.log : last.log[i].name \in Outcomes}

\* C11: between the machine leaving Idle and its next return to Idle at most
\* one of tap, swipe, cancelswipe, reorder is dispatched, whatever the events,
\* timers and vetoes
C11_OneOutcome == last.outcomes <= 1

\* C11 happens: a move that drifted off the item ended a Swiping session with
\* the one cancelswipe of that session
C11_Witness ==
    /\ MoveHandled
    /\ last.from = "swipe"
    /\ EventNames = <<"cancelswipe">>
    /\ last.outcomes = 1
    /\ state.ctor = "idle"

\* the snap-back that leaveState of Swiping and of Reordering starts for the
\* subject of the state that is left
SnapBack(from, subject) ==
    CASE from = "swipe" ->
            <<[fn |-> "animateToZero", callback |-> "removeClass", target |-> subject]>>
      [] from = "reorder" ->
            <<[fn |-> "animateToZero", callback |-> "zIndex", target |-> subject]>>
      [] OTHER -> <<>>

\* C12: cancel() in Undecided, Swiping or Reordering leaves the machine in
\* Idle, having run the leaveState of the state it was in (hold timer
\* disarmed; snap-back for Swiping and Reordering), and dispatches none of
\* tap, swipe, cancelswipe, reorder
C12_Cancel ==
    (last.op = "cancel" /\ last.from # "idle")
    => /\ state.ctor = "idle"
       /\ ~state.holdTimer /\ ~state.mouseOutsideTimer
       /\ last.animations = SnapBack(last.from, last.subject)
       /\ OutcomesDispatched = {}

\* C12 happens: cancel() during a reorder
C12_Witness ==
    /\ last.op = "cancel"
    /\ last.from = "reorder"
    /\ state.ctor = "idle"
    /\ Len(last.animations) = 1

\* a touchstart with more than one contact point (the only touchstart that
\* does not reach the state machine as a pointer-down)
MultiTouchStart == last.op = "touchstart" /\ ~last.pointer

\* C13: in every state a touchstart with more than one contact point leaves
\* the machine in Idle and dispatches none of tap, swipe, cancelswipe, reorder
C13_MultiTouch ==
    MultiTouchStart => state.ctor = "idle" /\ OutcomesDispatched = {}

\* C13 happens: a second finger during a swipe
C13_Witness ==
    /\ MultiTouchStart
    /\ last.from = "swipe"
    /\ state.ctor = "idle"

\* a move that C1 does not take for a swipe
SwipeMove == Abs(MovedX) > 20 /\ Abs(MovedY) < Max(100, last.itemHeight)

\* C14: in Undecided a move that is no swipe and has |dy| > 20 puts the
\* machine in Idle without any notification; and the pointer-up that follows,
\* which finds the machine in Idle, dispatches no tap
C14_ScrollRelease ==
    /\ (MoveHandled /\ last.from = "undecided" /\ ~SwipeMove /\ Abs(MovedY) > 20)
       => state.ctor = "idle" /\ last.log = <<>>
    /\ (last.op \in {"mouseup", "touchend"} /\ last.from = "idle")
       => Dispatched("tap") = {}

\* C14 happens: a move of 300px, 110px on the 40px item is no swipe and
\* released the gesture
C14_Witness ==
    /\ MoveHandled
    /\ last.from = "undecided"
    /\ MovedX = 300
    /\ MovedY = 110
    /\ last.itemHeight = 40
    /\ state.ctor = "idle"
    /\ last.log = <<>>

\* a handler of a session that went from Idle to Undecided and back, seeing no
\* movement beyond the classification thresholds (20px either way)
TapSessionStep ==
    /\ last.from \in {"idle", "undecided"}
    /\ state.ctor \in {"idle", "undecided"}
    /\ last.from # state.ctor \/ last.from = "undecided"
    /\ last.op \in {"mousedown", "touchstart", "mousemove", "touchmove", "holdTimer",
                    "mouseup", "touchend"}
    /\ last.pointer
    /\ Abs(MovedX) <= 20 /\ Abs(MovedY) <= 20

\* C15 as stated: in the sessions Idle -> Undecided -> Idle with no movement
\* beyond the thresholds no beforeswipe and no beforereorder is dispatched,
\* and the pointer-up that ends the session dispatches exactly one tap
C15_TapOnly ==
    TapSessionStep
    => /\ Dispatched("beforeswipe") = {}
       /\ Dispatched("beforereorder") = {}
       /\ (EndHandled /\ last.from = "undecided") => EventNames = <<"tap">>

\* C15, amended: in those sessions no beforeswipe is dispatched; a
\* beforereorder is dispatched only by the hold timer or by the entry whose
\* beforewait was vetoed, and it is vetoed; the pointer-up that ends the
\* session dispatches exactly one tap
C15_TapAfterDeclinedReorder ==
    TapSessionStep
    => /\ Dispatched("beforeswipe") = {}
       /\ \A i \in Dispatched("beforereorder") :
            /\ last.log[i].vetoed
            /\ \/ last.op = "holdTimer"
               \/ /\ DownHandled
                  /\ i - 1 \in Dispatched("beforewait")
                  /\ last.log[i - 1].vetoed
       /\ (EndHandled /\ last.from = "undecided") => EventNames = <<"tap">>

\* C15 happens: the hold timer of a still pointer dispatched a beforereorder
\* that a listener vetoed, and the session stays Undecided
C15_Witness ==
    /\ TapSessionStep
    /\ last.op = "holdTimer"
    /\ EventNames = <<"beforereorder">>
    /\ last.log[1].vetoed
    /\ state.ctor = "undecided"

\* C16 as stated: a session dragged to 5px, -30px is still held when the hold
\* elapses (it is Undecided with its timer pending) and the hold timer, its
\* beforereorder not vetoed, takes it to Reordering
C16_HoldAfterDrag ==
    /\ (MoveHandled /\ last.from = "undecided" /\ MovedX = 5 /\ MovedY = -30)
       => state.ctor = "undecided" /\ state.holdTimer
    /\ (/\ last.op = "holdTimer" /\ MovedX = 5 /\ MovedY = -30
        /\ \A i \in Dispatched("beforereorder") : ~last.log[i].vetoed)
       => state.ctor = "reorder"

\* C16, amended: the move to 5px, -30px releases an Undecided session to Idle
\* without any notification, so no hold follows; the hold timer takes to
\* Reordering the sessions whose displacement is within |dx| < 15 and
\* |dy| <= 20 while scrolling can still be prevented, beforereorder not vetoed
C16_DragReleases ==
    /\ (MoveHandled /\ last.from = "undecided" /\ MovedX = 5 /\ MovedY = -30)
       => state.ctor = "idle" /\ last.log = <<>> /\ ~state.holdTimer
    /\ (/\ last.op = "holdTimer" /\ Abs(MovedX) < 15 /\ Abs(MovedY) <= 20
        /\ canPreventScrolling
        /\ \A i \in Dispatched("beforereorder") : ~last.log[i].vetoed)
       => state.ctor = "reorder"

\* C16 happens: the move to 5px, -30px
C16_Witness ==
    /\ MoveHandled
    /\ last.from = "undecided"
    /\ MovedX = 5
    /\ MovedY = -30
    /\ state.ctor = "idle"

\* the snapshot of the example of C17
ExampleSnapshot ==
    /\ place.phase = "dropped"
    /\ [i \in DOMAIN place.otherNodes |-> place.otherNodes[i].pos] = <<-50, -10, 30, 70>>

\* C17 as stated: distances [-50, -10, 30, 70] and dy = 20 give spliceIndex 3
\* and insertBefore the node of the 4th snapshot entry
C17_ExampleFourth ==
    (ExampleSnapshot /\ place.y = 20)
    => /\ place.detail.spliceIndex = 3
       /\ place.detail.insertBefore = place.otherNodes[4].node

\* C17, amended: distances [-50, -10, 30, 70] and dy = 20 give spliceIndex 2
\* (the last distance below 20 is -10, at index 1) and insertBefore the node
\* of the 3rd snapshot entry
C17_ExampleThird ==
    (ExampleSnapshot /\ place.y = 20)
    => /\ place.detail.spliceIndex = 2
       /\ place.detail.insertBefore = place.otherNodes[3].node

\* C17 happens: the drop of the example
C17_Witness ==
    /\ ExampleSnapshot
    /\ place.y = 20
    /\ place.detail.spliceIndex = 2

\* C18: in Swiping a pointer-leave behaves as a pointer-up: it applies the
\* confirmation rule, dispatches swipe when confirmed and cancelswipe when
\* not, never tap, and leaves the machine in Idle
C18_LeaveEndsSwipe ==
    (last.op = "mouseleave" /\ last.pointer /\ last.from = "swipe")
    => /\ state.ctor = "idle"
       /\ Dispatched("tap") = {}
       /\ IF Confirmed
          THEN /\ EventNames = <<"swipe">>
               /\ last.log[1].detail.direction = (IF MovedX < 0 THEN "left" ELSE "right")
          ELSE EventNames = <<"cancelswipe">>

\* the off-screen animations the last handler started
SwipesAnimated == {k \in DOMAIN last.animations : last.animations[k].fn = "animateSwipe"}

\* C19: afterswipe is dispatched only for a session whose swipe was dispatched
\* and not vetoed, at most once per such session, and only by the delayed
\* callback of the off-screen animation that the return to Idle started; not
\* vetoed, the swiping indicator is removed; vetoed, the item is animated back
C19_AfterSwipe ==
    /\ Cardinality(SwipesAnimated) <= 1
    /\ SwipesAnimated # {}
       => /\ EndHandled /\ last.from = "swipe" /\ state.ctor = "idle"
          /\ EventNames = <<"swipe">> /\ ~last.log[1].vetoed
          /\ last.animations = <<[fn |-> "animateSwipe", callback |-> "afterswipe",
                                  target |-> last.log[1].target]>>
    /\ Cardinality(Dispatched("afterswipe")) <= 1
    /\ \A j \in Dispatched("afterswipe") :
         /\ last.op = "timeout"
         /\ last.timeout.fn = "animateSwipe"
         /\ last.log[j].target = last.timeout.target
         /\ \E i \in DOMAIN last.timeout.log :
              /\ last.timeout.log[i].name = "swipe"
              /\ last.timeout.log[i].target = last.timeout.target
              /\ ~last.timeout.log[i].vetoed
         /\ IF last.log[j].vetoed
            THEN last.animations = <<[fn |-> "animateToZero", callback |-> "none",
                                      target |-> last.timeout.target]>>
            ELSE ~swipingClass /\ last.animations = <<>>

\* C19 happens: a listener vetoed afterswipe and the item animates back
C19_Witness ==
    /\ last.op = "timeout"
    /\ EventNames = <<"afterswipe">>
    /\ last.log[1].vetoed
    /\ Len(last.animations) = 1

\* C20: once a Swiping session has ended and its delayed continuations have
\* run, no new Swiping session being started, the container no longer carries
\* the swiping indicator, whichever of swipe and afterswipe was vetoed
C20_IndicatorCleared ==
    (state.ctor = "idle" /\ timeouts = <<>>) => ~swipingClass

\* C21: in Swiping, a move whose vertical drift is below the item's height plus
\* 20 dispatches exactly one animateswipe on the item, carrying the signed
\* horizontal movement and the original index; the horizontal offset is written
\* to the item only when the notification was not vetoed; the move is consumed
\* and the machine stays in Swiping.  Any other move in Swiping dispatches
\* cancelswipe only, writes nothing and puts the machine in Idle.
C21_AnimateSwipe ==
    (MoveHandled /\ last.from = "swipe")
       => IF Abs(MovedY) < last.itemHeight + SwipeDriftY
          THEN /\ EventNames = <<"animateswipe">>
               /\ last.log[1].target = last.subject
               /\ last.log[1].detail = [x |-> MovedX, originalIndex |-> state.originalIndex]
               /\ last.styles = IF last.log[1].vetoed THEN <<>>
                                ELSE <<[node |-> last.subject, x |-> MovedX, y |-> 0]>>
               /\ last.ret = "false"
               /\ state.ctor = "swipe"
          ELSE /\ EventNames = <<"cancelswipe">>
               /\ last.styles = <<>>
               /\ state.ctor = "idle"

C21_Witness ==
    /\ MoveHandled /\ last.from = "swipe" /\ state.ctor = "swipe"
    /\ MovedX < 0
    /\ last.log[1].name = "animateswipe" /\ last.log[1].vetoed
    /\ last.styles = <<>>

\* C22: a pointer-leave in Reordering arms the grace timer and changes nothing
\* else; when the timer expires (no move has disarmed it) the session is
\* cancelled: the machine is in Idle, the item snaps back and no reorder is
\* dispatched; a move in Reordering disarms the timer and the session goes on;
\* and the timer is pending only in the Reordering session that armed it, so it
\* never cancels a later session.
C22_GraceTimer ==
    /\ state.mouseOutsideTimer => state.ctor = "reorder"
    /\ (last.op = "mouseleave" /\ last.pointer /\ last.from = "reorder")
          => /\ state.ctor = "reorder" /\ state.mouseOutsideTimer
             /\ last.log = <<>> /\ last.animations = <<>>
    /\ last.op = "mouseOutsideTimer"
          => /\ last.from = "reorder" /\ state.ctor = "idle"
             /\ last.log = <<>>
             /\ last.animations = SnapBack("reorder", last.subject)
    /\ (MoveHandled /\ last.from = "reorder")
          => state.ctor = "reorder" /\ ~state.mouseOutsideTimer

C22_Witness ==
    /\ last.op = "mouseOutsideTimer" /\ last.from = "reorder"
    /\ state.ctor = "idle" /\ target = NoTarget

\* C23: a pointer-down on an eligible item while the machine is not in Idle
\* discards the session in progress: the cleanup of the state being left runs
\* for the old subject (Swiping and Reordering snap the old item back), no
\* grace timer stays pending, and a fresh Undecided session begins: beforewait
\* is dispatched again, first and once, and a session left in Undecided has
\* its hold timer armed.
C23_Restart ==
    (DownHandled /\ last.from # "idle")
       => /\ last.animations = SnapBack(last.from, last.subject)
          /\ last.log # <<>> /\ last.log[1].name = "beforewait"
          /\ Cardinality(Dispatched("beforewait")) = 1
          /\ ~state.mouseOutsideTimer
          /\ state.ctor = "undecided" => state.holdTimer

\* C24: a pointer-down whose target is no eligible item or part of one (the
\* container itself, one of its ancestors, or no node at all) is ignored: the
\* handler returns, the machine is in Idle and nothing was dispatched
C24_OutsideIgnored ==
    (place.phase = "walk" /\ place.start <= place.page.above)
       ~> (place.phase = "returned" /\ state.ctor = "idle" /\ last.log = <<>>)

\* the item and the original event target of the session the last handler
\* worked on: a pointer-down sets them, the callback of an animation is given
\* the item it animated
SessionNode ==
    IF DownHandled THEN target.node
    ELSE IF last.op = "timeout" THEN last.timeout.target
    ELSE last.subject
SessionOriginal == IF DownHandled THEN target.originalTarget ELSE last.original

\* the notifications dispatched on the item, and those dispatched on the node
\* the pointer-down landed on
ItemEvents == {"animateswipe", "cancelswipe", "swipe", "afterswipe", "reorder"}
OriginalEvents == {"beforewait", "beforereorder", "beforeswipe", "tap"}

\* C25 as stated: every notification is dispatched with the resolved item node
\* as its target, also when the pointer-down landed on a descendant of the item
C25_ItemIsTarget ==
    \A i \in DOMAIN last.log : last.log[i].target = SessionNode

\* C25, amended: animateswipe, cancelswipe, swipe, afterswipe and reorder are
\* dispatched with the resolved item node as target; beforewait, beforereorder,
\* beforeswipe and tap are dispatched with the node the pointer-down landed on,
\* which is the item or a descendant of it
C25_Targets ==
    \A i \in DOMAIN last.log :
        /\ last.log[i].name \in ItemEvents \cup OriginalEvents
        /\ last.log[i].name \in ItemEvents => last.log[i].target = SessionNode
        /\ last.log[i].name \in OriginalEvents
              => /\ last.log[i].target = SessionOriginal
                 /\ FindTargetNode(last.log[i].target) = SessionNode

C25_Witness ==
    /\ DownHandled /\ last.from = "idle"
    /\ target.originalTarget # target.node
    /\ EventNames = <<"beforewait">>
    /\ last.log[1].target = target.originalTarget

\* C26: cancel() called while the machine is in Idle changes nothing, however
\* often it is called: the state object, the target, the input flags, the
\* handlers, the positions and the pending callbacks are what they were (no
\* cleanup and no state entry ran), and nothing is dispatched or animated
C26_CancelInIdle ==
    [][(last'.op = "cancel" /\ state.ctor = "idle")
          => /\ UNCHANGED <<state, target, usingTouch, mouseHandlersAttached,
                            canPreventScrolling, startPosition, latestPosition,
                            previousPosition, scrollTop, swipingClass, timeouts>>
             /\ last'.log = <<>> /\ last'.animations = <<>> /\ last'.styles = <<>>]_vars

C26_Witness ==
    /\ last.op = "cancel" /\ last.from = "idle"
    /\ state.ctor = "idle" /\ usingTouch
    /\ last.log = <<>>

\* the element children of the list that precede the node, all of them or
\* those that match no ignoredElements selector
ElementsBefore(node) == {i \in 1..(node - 1) : dom[i].kind = "elem"}
KeptBefore(node) == {i \in ElementsBefore(node) : ~dom[i].ignored}

C28_SwipedPercent ==
    (EndHandled /\ last.from = "swipe")
       => (Dispatched("swipe") # {}
             <=> \/ /\ MovedTime > options.minimumSwipeTime
                    /\ Abs(MovedX) > options.minimumSwipeVelocity * MovedTime
                 \/ /\ options.keepSwipingPercent # 0
                    /\ Abs(MovedX) * 100 > options.keepSwipingPercent * ContainerWidth)

\* C29: a pointer-up in Swiping always leaves the machine in Idle, and its
\* handler returns true exactly when the swipe was not confirmed (false when it
\* was), whether or not the listener vetoed the swipe notification
C29_SwipeEndReturn ==
    (EndHandled /\ last.from = "swipe")
       => /\ state.ctor = "idle"
          /\ last.ret = IF Confirmed THEN "false" ELSE "true"
          /\ Confirmed <=> Dispatched("swipe") # {}
          /\ ~Confirmed <=> Dispatched("cancelswipe") # {}

C29_Witness ==
    /\ EndHandled /\ last.from = "swipe" /\ state.ctor = "idle"
    /\ EventNames = <<"swipe">> /\ last.log[1].vetoed
    /\ last.ret = "false"

\* the handlers call e.preventDefault() exactly when the callback of the state
\* returned false: the event is consumed
DefaultPrevented == last.ret = "false"

\* C30 as stated: the pointer-up that ends a reorder is never consumed (the
\* default action is not suppressed), whereas every move in Reordering is
C30_EndNotConsumed ==
    /\ (EndHandled /\ last.from = "reorder") => ~DefaultPrevented
    /\ (MoveHandled /\ last.from = "reorder") => DefaultPrevented

\* C30, amended: the end callback of Reordering always returns false, so the
\* pointer-up that ends a reorder is always consumed (preventDefault is
\* called), whether or not the reorder notification was vetoed; and so is
\* every move in Reordering
C30_EndConsumed ==
    /\ (EndHandled /\ last.from = "reorder")
          => DefaultPrevented /\ state.ctor = "idle" /\ EventNames = <<"reorder">>
    /\ (MoveHandled /\ last.from = "reorder")
          => DefaultPrevented /\ state.ctor = "reorder"

C30_Witness ==
    /\ EndHandled /\ last.from = "reorder" /\ last.op = "mouseup"
    /\ EventNames = <<"reorder">> /\ ~last.log[1].vetoed
    /\ DefaultPrevented

\* C31: between handlers and callbacks, the machine holds a target exactly
\* when its state is not Idle, and the state object holds a snapshot of the
\* siblings exactly when the state is Reordering
C31_TargetAndSnapshot ==
    /\ target # NoTarget <=> state.ctor # "idle"
    /\ state.otherNodes # <<>> <=> state.ctor = "reorder"

C31_Witness ==
    /\ EndHandled /\ last.from = "reorder" /\ last.otherNodes # <<>>
    /\ state.ctor = "idle" /\ target = NoTarget /\ state.otherNodes = <<>>

\* the vertical centre of the subject, and the edges of a sibling
SubjectCentre == OffsetTop(dom, place.node) + OffsetHeight(dom, place.node) \div 2
TopEdge(n) == OffsetTop(dom, n)
BottomEdge(n) == OffsetTop(dom, n) + OffsetHeight(dom, n)

\* C32 as stated: in the snapshot every sibling above the subject has a
\* positive distance and every sibling below it a negative one
C32_PositiveAbove ==
    place.phase = "snapshot"
       => \A k \in DOMAIN place.otherNodes :
             IF place.otherNodes[k].node < place.node
             THEN place.otherNodes[k].pos > 0
             ELSE place.otherNodes[k].pos < 0

\* C32, amended: the distance of a sibling above the subject is its bottom edge
\* minus the subject's vertical centre, which is negative; that of a sibling
\* below is its top edge minus the centre, which is positive; the snapshot is
\* in document order, so the distances increase along it
C32_NegativeAbove ==
    place.phase = "snapshot"
       => /\ \A k \in DOMAIN place.otherNodes :
                IF place.otherNodes[k].node < place.node
                THEN /\ place.otherNodes[k].pos = BottomEdge(place.otherNodes[k].node)
                                                    - SubjectCentre
                     /\ place.otherNodes[k].pos < 0
                ELSE /\ place.otherNodes[k].pos = TopEdge(place.otherNodes[k].node)
                                                    - SubjectCentre
                     /\ place.otherNodes[k].pos > 0
          /\ \A j, k \in DOMAIN place.otherNodes :
                j < k => /\ place.otherNodes[j].node < place.otherNodes[k].node
                         /\ place.otherNodes[j].pos < place.otherNodes[k].pos

C32_Witness ==
    /\ place.phase = "snapshot"
    /\ Len(place.otherNodes) = 2
    /\ place.otherNodes[1].node < place.node /\ place.otherNodes[1].pos < 0
    /\ place.otherNodes[2].node > place.node /\ place.otherNodes[2].pos > 0

\* C33: a handler that takes the machine out of Swiping or Reordering runs the
\* cleanup of that state exactly once (the cleanup starts one animation of the
\* item), also when the pointer-down's Undecided entry goes straight on to
\* Reordering
C33_CleanupOnce ==
    (last.from \in {"swipe", "reorder"} /\ last.op # "timeout" /\ state.ctor # last.from)
       => Len(last.animations) = 1

\* C34: whenever the machine is Idle, a main-button mouse-down on an item
\* starts a session (beforewait is dispatched and the machine leaves Idle),
\* whatever touch events were handled before
C34_MouseStarts ==
    state.ctor = "idle" =>
        \A raw \in RawTargets, pos \in StartSamples, e \in EntryInputs :
            LET m == onMouseDown(Machine, raw, 0, pos, e)
            IN /\ m.state.ctor # "idle"
               /\ \E i \in DOMAIN m.log : m.log[i].name = "beforewait"

\* C35: whenever the machine is Swiping the container carries the swiping
\* indicator, also while callbacks of an earlier session's animations run
C35_SwipingClass == state.ctor = "swipe" => swipingClass

\* the snapshot siblings the last move displaced by one item height
Displaced == {i \in DOMAIN place.offsets : place.offsets[i] # 0}

\* the number of snapshot siblings that lay above the subject
SnapshotAbove == Cardinality({i \in DOMAIN place.otherNodes : place.otherNodes[i].pos < 0})

MonotonicSnapshot ==
    \A j, k \in DOMAIN place.otherNodes :
        j < k => place.otherNodes[j].pos <= place.otherNodes[k].pos

\* C36: at a drop the siblings the last move displaced are exactly those
\* between the subject's original position and the insertion point, so their
\* number is |spliceIndex - number of siblings originally above|, for every
\* snapshot with monotonic distances and every dy
C36_DisplacedBetween ==
    (place.phase = "dropped" /\ MonotonicSnapshot)
    => LET spliceIndex == place.detail.spliceIndex
       IN /\ Displaced = IF spliceIndex < SnapshotAbove
                         THEN (spliceIndex + 1)..SnapshotAbove
                         ELSE (SnapshotAbove + 1)..spliceIndex
          /\ \A i \in Displaced :
                place.offsets[i] = IF spliceIndex < SnapshotAbove THEN ListHeight
                                   ELSE -ListHeight
          /\ Cardinality(Displaced) = Abs(spliceIndex - SnapshotAbove)

\* C36 happens: a drop above both siblings that lay above the subject, which
\* the last move displaced
C36_Witness ==
    /\ place.phase = "dropped"
    /\ MonotonicSnapshot
    /\ Len(place.otherNodes) = MaxSnapshot
    /\ SnapshotAbove = 2
    /\ place.detail.spliceIndex = 0
    /\ Cardinality(Displaced) = 2

\* the events of C37 that end a session: the pointer-up of the pointer in use
\* (a mouse-up is the session's while no touch is in use), a touch-end with
\* touches left, which cancels, a cancel, and the grace timer
SessionEnded ==
    \/ EndHandled
    \/ last.op \in {"touchend", "cancel", "mouseOutsideTimer"}

\* the same Slip with the events of one pointer at a time: no touch starts
\* while the mouse listeners of a mouse session are attached, touch-moves and
\* touch-ends follow a touch-start, and mouse-downs come while no touch is in
\* use.  A timer the code has armed fires unless it is cleared (setTimeout).
NextFair ==
    \/ ~usingTouch /\ MouseDown
    \/ ~mouseHandlersAttached /\ TouchStart
    \/ MouseMove
    \/ usingTouch /\ TouchMove
    \/ MouseUp
    \/ usingTouch /\ TouchEnd
    \/ MouseLeave
    \/ Cancel
    \/ HoldTimer
    \/ MouseOutsideTimer
    \/ Timeout

SpecFair == Init /\ [][NextFair]_vars /\ WF_vars(MouseOutsideTimer)

\* C37: from Undecided, Swiping and Reordering the session's pointer-up or a
\* cancel leaves the machine Idle with no target and no timer of the session
\* pending, and in Reordering a pointer-leave arms the grace timer, which,
\* unless a further event disarms it, fires and leaves the machine Idle
C37_SessionEnds ==
    /\ [](SessionEnded
            => /\ state.ctor = "idle" /\ target = NoTarget
               /\ ~state.holdTimer /\ ~state.mouseOutsideTimer)
    /\ []((last.op = "mouseleave" /\ last.pointer /\ last.from = "reorder")
            => state.mouseOutsideTimer)
    /\ (state.mouseOutsideTimer ~> (state.ctor = "idle" \/ ~state.mouseOutsideTimer))

\* C37 happens: the grace timer ended a Reordering session the pointer had left
C37_Witness ==
    /\ last.op = "mouseOutsideTimer"
    /\ last.from = "reorder"
    /\ state.ctor = "idle"
    /\ ~mouseHandlersAttached

\* C38: the upward walk of findTargetNode terminates for every starting node:
\* it returns the ancestor-or-self that is a direct child of the container when
\* there is one, and no node when the walk starts at the container, at one of
\* its ancestors or at no node
C38_WalkTerminates ==
    place.phase = "walk"
       ~> /\ place.phase = "returned"
          /\ place.node = IF place.start > place.page.above
                          THEN place.page.above + 1
                          ELSE NullNode

\* a move event, handled or not
MoveStep == last'.op \in {"mousemove", "touchmove"}

\* C39: every handled move sets latestPosition to the new sample and, after
\* the move handler of the state has run, advances previousPosition to it
\* exactly when it is more than 100ms later than previousPosition, leaving
\* startPosition alone; so after every handled move latestPosition is at most
\* 100ms later than previousPosition, and startPosition, previousPosition,
\* latestPosition are in time order; a move without a target changes none of
\* the three
C39_Positions ==
    /\ [](MoveHandled
            => /\ latestPosition = last.sample
               /\ latestPosition.time - previousPosition.time <= 100
               /\ startPosition.time <= previousPosition.time
               /\ previousPosition.time <= latestPosition.time)
    /\ [][(MoveStep /\ last'.pointer)
            => /\ previousPosition' =
                    IF last'.sample.time - previousPosition.time > 100
                    THEN last'.sample ELSE previousPosition
               /\ startPosition' = startPosition]_vars
    /\ [][(MoveStep /\ ~last'.pointer)
            => UNCHANGED <<startPosition, latestPosition, previousPosition>>]_vars

\* C39 happens: a handled move 100ms after the previous sample left
\* previousPosition where it was
C39_Witness ==
    /\ MoveHandled
    /\ latestPosition = last.sample
    /\ latestPosition.time - previousPosition.time = 100
    /\ startPosition = previousPosition

\* the instances whose listeners are on a container
AttachedInstances == {i \in 1..MaxInstances : place.instances[i].attached}

\* C40: the instance counter equals the number of instances attached, and the
\* body listener of the workaround is installed exactly while that number is
\* at least 1 (in the browsers that need it)
C40_InstanceCounter ==
    place.phase = "page"
       => /\ place.globalInstances = Cardinality(AttachedInstances)
          /\ place.needsBodyHandlerHack
                => (place.attachedBodyHandlerHack <=> Cardinality(AttachedInstances) >= 1)

====
